---- MODULE Spec2Model ----
(***************************************************************************)
(* Event-driven backtesting framework: the EventEngine dispatcher, the     *)
(* DataHandler feed, the MeanReversionStrategy, the Portfolio ledger and   *)
(* the ExecutionHandler, driven as in examples/mean_reversion_demo.py.     *)
(*                                                                         *)
(* Representation of the Python floats:                                    *)
(*   - prices and cash are integers of one money unit; the rates and the   *)
(*     random draws are rationals <<num, den>>, chosen so that every       *)
(*     product the code computes is an integer (checked by ExactArith);    *)
(*   - SignalEvent.strength, a float in [0,1], is an integer number of     *)
(*     1/StrengthDen, rounded down where the code takes a square root;     *)
(*   - timestamps are integer milliseconds.                                *)
(***************************************************************************)
EXTENDS Integers, Sequences, FiniteSets, TLC

VARIABLES
    \* EventEngine
    event_queue,     \* self.event_queue (deque)
    handlers,        \* self.handlers: event type -> list of handlers
    cur_event,       \* process_events: the event popped and being dispatched
    handler_idx,     \* process_events: position of `for handler in handlers`
    inflight,        \* coroutine handlers suspended on their await
    \* driver (run_backtest / a caller of the components)
    pc, bar_count,
    \* DataHandler
    symbols, data, current_index,
    \* Portfolio
    current_capital, positions, holdings, equity_curve, trades, current_prices,
    \* ExecutionHandler
    exec_prices, slippage_pct, commission_pct,
    \* MeanReversionStrategy
    lookback, num_std, position,
    \* observation of the run (not program state)
    enq_log,         \* every event given to put_event, in call order
    popped,          \* every event popped by process_events, in order
    invocations,     \* every handler invocation: event number and handler
    last_call,       \* the operation performed by the last step
    calls,           \* number of direct calls made by a component's caller
    error,           \* an exception raised by the last operation, or "none"
    resolved,        \* every execute_order that returned: its order, its
                     \* random draws and its fills
    first_run        \* when the driver is run twice: the first run's outcome

engineVars == <<event_queue, handlers, cur_event, handler_idx, inflight>>
driverVars == <<pc, bar_count>>
dataVars == <<symbols, data, current_index>>
pfVars == <<current_capital, positions, holdings, equity_curve, trades, current_prices>>
execVars == <<exec_prices, slippage_pct, commission_pct>>
stratVars == <<lookback, num_std, position>>
obsVars == <<enq_log, popped, invocations, last_call, calls, error, resolved, first_run>>
vars == <<engineVars, driverVars, dataVars, pfVars, execVars, stratVars, obsVars>>

----------------------------------------------------------------------------
(* Bounds and input sets *)

MaxBars == 5

MaxCalls == 3

MaxEvents == 3

MaxHandlers == 3

MaxExecCalls == 2

StrengthDen == 10

BarMs == 3600000

DefaultPrice == 100

Closes == {20, 40}
OtherCloses == {20}
SymbolLists == {<<"A">>, <<"A", "B">>}
InitialCapitals == {10000}
SlippageRates == {<<0, 1>>, <<1, 5>>}
CommissionRates == {<<0, 1>>, <<1, 1>>}
LatencyMs == <<10, 50>>
Latencies == {LatencyMs[1], LatencyMs[2]}
UniformDraws == {<<1, 2>>, <<1, 1>>, <<3, 2>>}
Lookbacks == {3}
NumStds == {1}
StrategySymbol == "A"
CallSymbols == {"A", "B"}
CallCapitals == {150}
CallStrengths == {0, StrengthDen}
CallQuantities == {10}
CallCommissions == {0, 3}

EventTypes == {"MARKET", "SIGNAL", "ORDER", "FILL"}
NoEvent == [event_type |-> "NONE"]
NoCall == [op |-> "none"]
NoRun == [run |-> 0]

----------------------------------------------------------------------------
(* Helpers: dicts are functions on the set of their keys *)

EmptyDict == [k \in {} |-> 0]

DictSet(d, k, v) == [x \in (DOMAIN d) \cup {k} |-> IF x = k THEN v ELSE d[x]]

RECURSIVE SumOver(_, _)
SumOver(d, ks) ==
    IF ks = {} THEN 0
    ELSE LET k == CHOOSE x \in ks : TRUE IN d[k] + SumOver(d, ks \ {k})

SumValues(d) == SumOver(d, DOMAIN d)

RECURSIVE SumSeq(_)
SumSeq(s) == IF s = <<>> THEN 0 ELSE Head(s) + SumSeq(Tail(s))

RECURSIVE SumSq(_)
SumSq(s) == IF s = <<>> THEN 0 ELSE Head(s) * Head(s) + SumSq(Tail(s))

MinOf(S) == CHOOSE x \in S : \A y \in S : x <= y
MaxOf(S) == CHOOSE x \in S : \A y \in S : x >= y

RECURSIVE SeqsUpTo(_, _)
SeqsUpTo(S, n) ==
    IF n = 0 THEN {<<>>}
    ELSE LET shorter == SeqsUpTo(S, n - 1)
         IN shorter \cup {Append(s, x) : s \in {t \in shorter : Len(t) = n - 1}, x \in S}

\* int(x) of a quotient a / b with b > 0: truncation toward zero
TruncDiv(a, b) == IF a >= 0 THEN a \div b ELSE -((-a) \div b)

Abs(x) == IF x < 0 THEN -x ELSE x

----------------------------------------------------------------------------
(* Events (core/event.py): the fields the constructors are given *)

MarketEvent(ts, s, close) ==
    [event_type |-> "MARKET", timestamp |-> ts, symbol |-> s, close |-> close]

SignalEvent(ts, s, st, strength) ==
    [event_type |-> "SIGNAL", timestamp |-> ts, symbol |-> s,
     signal_type |-> st, strength |-> strength]

OrderEvent(ts, s, ot, q, dir) ==
    [event_type |-> "ORDER", timestamp |-> ts, symbol |-> s,
     order_type |-> ot, quantity |-> q, direction |-> dir]

FillEvent(ts, s, q, dir, fp, comm, slip) ==
    [event_type |-> "FILL", timestamp |-> ts, symbol |-> s, quantity |-> q,
     direction |-> dir, fill_price |-> fp, commission |-> comm, slippage |-> slip]

----------------------------------------------------------------------------
(* EventEngine *)

\* put_event, for the events one operation enqueues, in order
put_events(evs) ==
    /\ event_queue' = event_queue \o evs
    /\ enq_log' = enq_log \o evs

\* asyncio.iscoroutinefunction(handler)
iscoroutinefunction(h) == h = "handle_order_event"

\* a dispatcher that takes the newest event (`self.event_queue.pop()`)
popleft_Newest ==
    [event |-> event_queue[Len(event_queue)],
     rest |-> SubSeq(event_queue, 1, Len(event_queue) - 1)]

\* self.event_queue.popleft(): the event taken and the queue left
popleft == [event |-> Head(event_queue), rest |-> Tail(event_queue)]

\* a dispatcher that walks the handler list backwards
HandlerAt_Reversed(event_type, idx) ==
    handlers[event_type][Len(handlers[event_type]) - idx + 1]

\* `for handler in handlers`: the idx-th handler of the event's type
HandlerAt(event_type, idx) == handlers[event_type][idx]

\* a dispatcher that schedules the coroutine and goes on without awaiting it
AwaitDone_NotAwaited == TRUE

\* `await handler(event)`: process_events goes on only when the awaited
\* coroutine has returned
AwaitDone == inflight = <<>>

\* a drain loop that stops one event early (`while len(queue) > 1`)
DrainFinished_OffByOne == Len(event_queue) <= 1

\* `while self.event_queue:` is false: process_events returns
DrainFinished == event_queue = <<>>

----------------------------------------------------------------------------
(* DataHandler *)

\* a get_latest_bars whose window stops one bar before the cursor
get_latest_bars_Stale(symbol, n) ==
    IF symbol \notin DOMAIN data THEN <<>>
    ELSE IF current_index < n + 1 THEN <<>>
    ELSE SubSeq(data[symbol], current_index - n, current_index - 1)

\* get_latest_bars(symbol, n)['close']; None is the empty sequence (n >= 1)
get_latest_bars(symbol, n) ==
    IF symbol \notin DOMAIN data THEN <<>>
    ELSE IF current_index < n THEN <<>>
    ELSE SubSeq(data[symbol], current_index - n + 1, current_index)

\* a stream_next_bar that gives up one bar before the end
HasNextBar_StopsEarly ==
    /\ DOMAIN data # {}
    /\ current_index + 1 < MinOf({Len(data[s]) : s \in DOMAIN data})

\* stream_next_bar returns True: data is loaded and the cursor is before the
\* end of the shortest series
HasNextBar ==
    /\ DOMAIN data # {}
    /\ current_index < MinOf({Len(data[s]) : s \in DOMAIN data})

\* the MarketEvents stream_next_bar creates, one per symbol, in list order
BarEvents ==
    [i \in 1..Len(symbols) |->
        MarketEvent(current_index * BarMs, symbols[i],
                    data[symbols[i]][current_index + 1])]

----------------------------------------------------------------------------
(* Portfolio *)

\* self.current_capital + sum(self.holdings.values())
TotalEquity(cash, hold) == cash + SumValues(hold)

\* an update that values the equity before it refreshes the holdings
update_market_price_StaleEquity(symbol, price, timestamp) ==
    /\ current_prices' = DictSet(current_prices, symbol, price)
    /\ holdings' = IF symbol \in DOMAIN positions
                   THEN DictSet(holdings, symbol, positions[symbol] * price)
                   ELSE holdings
    /\ equity_curve' =
         Append(equity_curve, <<timestamp, TotalEquity(current_capital, holdings)>>)
    /\ UNCHANGED <<current_capital, positions, trades>>

update_market_price(symbol, price, timestamp) ==
    LET hold == IF symbol \in DOMAIN positions
                THEN DictSet(holdings, symbol, positions[symbol] * price)
                ELSE holdings
    IN /\ current_prices' = DictSet(current_prices, symbol, price)
       /\ holdings' = hold
       /\ equity_curve' =
            Append(equity_curve, <<timestamp, TotalEquity(current_capital, hold)>>)
       /\ UNCHANGED <<current_capital, positions, trades>>

\* int((capital * 0.1 * strength) / price), strength in 1/StrengthDen
PositionSize(cash, strength, price) ==
    TruncDiv(cash * strength, 10 * StrengthDen * price)

\* self.current_prices.get(symbol, 100)
SizingPrice(symbol) ==
    IF symbol \in DOMAIN current_prices THEN current_prices[symbol] ELSE DefaultPrice

\* a process_signal without its `if position_size == 0: return`
SignalOrders_NoZeroCheck(event) ==
    LET symbol == event.symbol
        position_size ==
            PositionSize(current_capital, event.strength, SizingPrice(symbol))
    IN IF event.signal_type = "LONG"
         THEN <<OrderEvent(event.timestamp, symbol, "MARKET", position_size, "BUY")>>
       ELSE IF event.signal_type = "SHORT"
         THEN <<OrderEvent(event.timestamp, symbol, "MARKET", position_size, "SELL")>>
       ELSE IF symbol \in DOMAIN positions /\ positions[symbol] > 0
         THEN <<OrderEvent(event.timestamp, symbol, "MARKET",
                           positions[symbol], "SELL")>>
       ELSE <<>>

\* a process_signal whose EXIT sells the freshly sized quantity, like a SHORT
SignalOrders_ExitSized(event) ==
    LET symbol == event.symbol
        position_size ==
            PositionSize(current_capital, event.strength, SizingPrice(symbol))
    IN IF position_size = 0 THEN <<>>
       ELSE IF event.signal_type = "LONG"
         THEN <<OrderEvent(event.timestamp, symbol, "MARKET", position_size, "BUY")>>
       ELSE IF event.signal_type \in {"SHORT", "EXIT"}
         THEN <<OrderEvent(event.timestamp, symbol, "MARKET", position_size, "SELL")>>
       ELSE <<>>

\* the OrderEvents process_signal enqueues for a SignalEvent
SignalOrders(event) ==
    LET symbol == event.symbol
        position_size ==
            PositionSize(current_capital, event.strength, SizingPrice(symbol))
    IN IF position_size = 0 THEN <<>>
       ELSE IF event.signal_type = "LONG"
         THEN <<OrderEvent(event.timestamp, symbol, "MARKET", position_size, "BUY")>>
       ELSE IF event.signal_type = "SHORT"
         THEN <<OrderEvent(event.timestamp, symbol, "MARKET", position_size, "SELL")>>
       ELSE IF event.signal_type = "EXIT"
         THEN IF symbol \in DOMAIN positions /\ positions[symbol] > 0
              THEN <<OrderEvent(event.timestamp, symbol, "MARKET",
                                positions[symbol], "SELL")>>
              ELSE <<>>
       ELSE <<>>

process_signal(event) ==
    /\ put_events(SignalOrders(event))
    /\ UNCHANGED pfVars

\* a process_fill that sets the position to the filled quantity
FillPositions_Overwrite(event) ==
    IF event.direction = "BUY"
    THEN DictSet(positions, event.symbol, event.quantity)
    ELSE DictSet(positions, event.symbol, -event.quantity)

\* self.positions after process_fill
FillPositions(event) ==
    LET symbol == event.symbol
        pos == IF symbol \in DOMAIN positions THEN positions
               ELSE DictSet(positions, symbol, 0)
    IN IF event.direction = "BUY"
       THEN DictSet(pos, symbol, pos[symbol] + event.quantity)
       ELSE DictSet(pos, symbol, pos[symbol] - event.quantity)

\* a process_fill whose SELL proceeds forget the quantity
FillCapital_SellOneUnit(event) ==
    IF event.direction = "BUY"
    THEN current_capital - (event.fill_price * event.quantity + event.commission)
    ELSE current_capital + (event.fill_price - event.commission)

\* self.current_capital after process_fill
FillCapital(event) ==
    IF event.direction = "BUY"
    THEN current_capital - (event.fill_price * event.quantity + event.commission)
    ELSE current_capital + (event.fill_price * event.quantity - event.commission)

\* a process_fill that leaves the holdings as they were
FillHoldings_NotRefreshed(event) == holdings

\* self.holdings after process_fill
FillHoldings(event) ==
    LET symbol == event.symbol
    IN IF symbol \in DOMAIN current_prices
       THEN DictSet(holdings, symbol,
                    FillPositions(event)[symbol] * current_prices[symbol])
       ELSE holdings

TradeRecord(event) ==
    [timestamp |-> event.timestamp, symbol |-> event.symbol,
     direction |-> event.direction, quantity |-> event.quantity,
     price |-> event.fill_price, commission |-> event.commission,
     slippage |-> event.slippage]

process_fill(event) ==
    /\ positions' = FillPositions(event)
    /\ current_capital' = FillCapital(event)
    /\ holdings' = FillHoldings(event)
    /\ trades' = Append(trades, TradeRecord(event))
    /\ UNCHANGED <<equity_curve, current_prices>>

----------------------------------------------------------------------------
(* ExecutionHandler *)

exec_update_market_price(symbol, price) ==
    /\ exec_prices' = DictSet(exec_prices, symbol, price)
    /\ UNCHANGED <<slippage_pct, commission_pct>>

\* slippage_factor: slippage_pct, times 1.5 for a MARKET order
SlippageFactor(order_type) ==
    IF order_type = "MARKET"
    THEN <<slippage_pct[1] * 3, slippage_pct[2] * 2>>
    ELSE slippage_pct

\* base_price * slippage_factor * np.random.uniform(0.5, 1.5), u the draw
SlippageAmount(base_price, order_type, u) ==
    LET sf == SlippageFactor(order_type)
    IN (base_price * sf[1] * u[1]) \div (sf[2] * u[2])

\* a fill priced in the trader's favour
FillPrice_Favourable(base_price, order, u) ==
    IF order.direction = "BUY"
    THEN base_price - SlippageAmount(base_price, order.order_type, u)
    ELSE base_price + SlippageAmount(base_price, order.order_type, u)

\* fill_price: base_price + slippage for a BUY, base_price - slippage for a SELL
FillPrice(base_price, order, u) ==
    IF order.direction = "BUY"
    THEN base_price + SlippageAmount(base_price, order.order_type, u)
    ELSE base_price - SlippageAmount(base_price, order.order_type, u)

\* a commission that depends on a state kept from an earlier run
Commission_CarriedOver(fill_price, quantity) ==
    (fill_price * quantity * commission_pct[1]) \div commission_pct[2]
      + first_run.run

\* fill_price * event.quantity * self.commission_pct
Commission(fill_price, quantity) ==
    (fill_price * quantity * commission_pct[1]) \div commission_pct[2]

\* a FillEvent stamped with its order's time, the latency left out
MakeFill_NoLatency(order, latency, u) ==
    LET base_price == exec_prices[order.symbol]
        fill_price == FillPrice(base_price, order, u)
    IN FillEvent(order.timestamp, order.symbol, order.quantity,
                 order.direction, fill_price,
                 Commission(fill_price, order.quantity),
                 Abs(fill_price - base_price))

\* the FillEvent execute_order creates, latency in milliseconds
MakeFill(order, latency, u) ==
    LET base_price == exec_prices[order.symbol]
        fill_price == FillPrice(base_price, order, u)
    IN FillEvent(order.timestamp + latency, order.symbol, order.quantity,
                 order.direction, fill_price,
                 Commission(fill_price, order.quantity),
                 Abs(fill_price - base_price))

\* an execute_order that puts its FillEvent twice
ExecuteOutcome_TwoFills(order, latency, u) ==
    IF order.symbol \notin DOMAIN exec_prices
    THEN [fills |-> <<>>, error |-> "none"]
    ELSE [fills |-> <<MakeFill(order, latency, u), MakeFill(order, latency, u)>>,
          error |-> "none"]

\* an execute_order without its `if event.symbol not in self.current_prices`
ExecuteOutcome_Unguarded(order, latency, u) ==
    IF order.symbol \notin DOMAIN exec_prices
    THEN [fills |-> <<>>, error |-> "KeyError"]
    ELSE [fills |-> <<MakeFill(order, latency, u)>>, error |-> "none"]

\* execute_order after its sleep: what it enqueues and what it raises
ExecuteOutcome(order, latency, u) ==
    IF order.symbol \notin DOMAIN exec_prices
    THEN [fills |-> <<>>, error |-> "none"]
    ELSE [fills |-> <<MakeFill(order, latency, u)>>, error |-> "none"]

----------------------------------------------------------------------------
(* MeanReversionStrategy: closes w, n = len(w), S = sum, V = n*sum(x^2) - S^2, *)
(* so sma = S/n and std (ddof = 1) = sqrt(V / (n*(n-1))); D = S - n*close.   *)

Deviation(close, w) == SumSeq(w) - Len(w) * close

Spread(w) == Len(w) * SumSq(w) - SumSeq(w) * SumSeq(w)

\* |close - sma| > num_std * std, squared; false for n = 1 (std is NaN)
OutsideBand(close, w, k) ==
    /\ Len(w) > 1
    /\ Deviation(close, w) * Deviation(close, w) * (Len(w) - 1)
         > k * k * Len(w) * Spread(w)

\* current_price < lower_band
BelowLower(close, w, k) == Deviation(close, w) > 0 /\ OutsideBand(close, w, k)

\* current_price > upper_band
AboveUpper(close, w, k) == Deviation(close, w) < 0 /\ OutsideBand(close, w, k)

\* abs(current_price - sma) < 0.5 * std
NearMean(close, w) ==
    /\ Len(w) > 1
    /\ 4 * Deviation(close, w) * Deviation(close, w) * (Len(w) - 1)
         < Len(w) * Spread(w)

\* a strength capped at 3.0 instead of 1.0
BandStrength_CappedAt3(close, w, k) ==
    MaxOf({t \in 0..(3 * StrengthDen) :
        (t + StrengthDen * k) * (t + StrengthDen * k) * Len(w) * Spread(w)
          <= StrengthDen * StrengthDen
               * Deviation(close, w) * Deviation(close, w) * (Len(w) - 1)})

\* min(1.0, (|close - sma| - num_std * std) / std) in 1/StrengthDen, rounded
\* down; a zero std divides to +inf, which min caps at 1.0
BandStrength(close, w, k) ==
    MaxOf({t \in 0..StrengthDen :
        (t + StrengthDen * k) * (t + StrengthDen * k) * Len(w) * Spread(w)
          <= StrengthDen * StrengthDen
               * Deviation(close, w) * Deviation(close, w) * (Len(w) - 1)})

\* a calculate_signals that asks for one bar fewer than its window
StrategyDecision_ShortWindow(event, flag) ==
    LET bars == get_latest_bars(StrategySymbol, lookback - 1)
        close == event.close
    IN IF event.symbol # StrategySymbol THEN [signals |-> <<>>, position |-> flag]
       ELSE IF Len(bars) < lookback - 1 THEN [signals |-> <<>>, position |-> flag]
       ELSE IF BelowLower(close, bars, num_std) /\ flag = 0
         THEN [signals |-> <<SignalEvent(event.timestamp, StrategySymbol, "LONG",
                                         BandStrength(close, bars, num_std))>>,
               position |-> 1]
       ELSE IF AboveUpper(close, bars, num_std) /\ flag = 1
         THEN [signals |-> <<SignalEvent(event.timestamp, StrategySymbol, "EXIT",
                                         BandStrength(close, bars, num_std))>>,
               position |-> 0]
       ELSE IF NearMean(close, bars) /\ flag = 1
         THEN [signals |-> <<SignalEvent(event.timestamp, StrategySymbol, "EXIT",
                                         StrengthDen \div 2)>>,
               position |-> 0]
       ELSE [signals |-> <<>>, position |-> flag]

\* a calculate_signals that tries the near-mean rule before the upper band
StrategyDecision_NearMeanFirst(event, flag) ==
    LET bars == get_latest_bars(StrategySymbol, lookback)
        close == event.close
    IN IF event.symbol # StrategySymbol THEN [signals |-> <<>>, position |-> flag]
       ELSE IF Len(bars) < lookback THEN [signals |-> <<>>, position |-> flag]
       ELSE IF BelowLower(close, bars, num_std) /\ flag = 0
         THEN [signals |-> <<SignalEvent(event.timestamp, StrategySymbol, "LONG",
                                         BandStrength(close, bars, num_std))>>,
               position |-> 1]
       ELSE IF NearMean(close, bars) /\ flag = 1
         THEN [signals |-> <<SignalEvent(event.timestamp, StrategySymbol, "EXIT",
                                         StrengthDen \div 2)>>,
               position |-> 0]
       ELSE IF AboveUpper(close, bars, num_std) /\ flag = 1
         THEN [signals |-> <<SignalEvent(event.timestamp, StrategySymbol, "EXIT",
                                         BandStrength(close, bars, num_std))>>,
               position |-> 0]
       ELSE [signals |-> <<>>, position |-> flag]

\* a calculate_signals that emits its LONG without setting the flag
StrategyDecision_ForgetsLong(event, flag) ==
    LET bars == get_latest_bars(StrategySymbol, lookback)
        close == event.close
    IN IF event.symbol # StrategySymbol THEN [signals |-> <<>>, position |-> flag]
       ELSE IF Len(bars) < lookback THEN [signals |-> <<>>, position |-> flag]
       ELSE IF BelowLower(close, bars, num_std) /\ flag = 0
         THEN [signals |-> <<SignalEvent(event.timestamp, StrategySymbol, "LONG",
                                         BandStrength(close, bars, num_std))>>,
               position |-> flag]
       ELSE IF AboveUpper(close, bars, num_std) /\ flag = 1
         THEN [signals |-> <<SignalEvent(event.timestamp, StrategySymbol, "EXIT",
                                         BandStrength(close, bars, num_std))>>,
               position |-> 0]
       ELSE IF NearMean(close, bars) /\ flag = 1
         THEN [signals |-> <<SignalEvent(event.timestamp, StrategySymbol, "EXIT",
                                         StrengthDen \div 2)>>,
               position |-> 0]
       ELSE [signals |-> <<>>, position |-> flag]

\* calculate_signals: the signal emitted (a sequence of 0 or 1) and the flag
StrategyDecision(event, flag) ==
    LET bars == get_latest_bars(StrategySymbol, lookback)
        close == event.close
    IN IF event.symbol # StrategySymbol THEN [signals |-> <<>>, position |-> flag]
       ELSE IF Len(bars) < lookback THEN [signals |-> <<>>, position |-> flag]
       ELSE IF BelowLower(close, bars, num_std) /\ flag = 0
         THEN [signals |-> <<SignalEvent(event.timestamp, StrategySymbol, "LONG",
                                         BandStrength(close, bars, num_std))>>,
               position |-> 1]
       ELSE IF AboveUpper(close, bars, num_std) /\ flag = 1
         THEN [signals |-> <<SignalEvent(event.timestamp, StrategySymbol, "EXIT",
                                         BandStrength(close, bars, num_std))>>,
               position |-> 0]
       ELSE IF NearMean(close, bars) /\ flag = 1
         THEN [signals |-> <<SignalEvent(event.timestamp, StrategySymbol, "EXIT",
                                         StrengthDen \div 2)>>,
               position |-> 0]
       ELSE [signals |-> <<>>, position |-> flag]

calculate_signals(event) ==
    /\ position' = StrategyDecision(event, position).position
    /\ put_events(StrategyDecision(event, position).signals)
    /\ UNCHANGED <<lookback, num_std>>

----------------------------------------------------------------------------
(* run_backtest: construction, handler registration, the driver loop *)

\* the register_handler calls of run_backtest, in order
Registrations ==
    << <<"MARKET", "handle_market_event">>, <<"SIGNAL", "handle_signal_event">>,
       <<"ORDER", "handle_order_event">>, <<"FILL", "handle_fill_event">> >>

\* self.handlers[event_type].append(handler)
register_handler(event_type, handler) ==
    handlers' = [handlers EXCEPT ![event_type] = Append(@, handler)]

Registered == SumSeq([i \in 1..4 |-> Len(handlers[Registrations[i][1]])])

Running == error = "none"

\* the for loop of process_events has no handler left for the popped event
HandlersDone ==
    IF cur_event = NoEvent THEN TRUE
    ELSE handler_idx > Len(handlers[cur_event.event_type])

\* the handler the for loop of process_events invokes next is h
Dispatching(h) ==
    /\ pc = "drain"
    /\ Running
    /\ AwaitDone
    /\ cur_event # NoEvent
    /\ handler_idx <= Len(handlers[cur_event.event_type])
    /\ HandlerAt(cur_event.event_type, handler_idx) = h

\* the loop takes handler h and calls it
CallHandler(h) ==
    /\ handler_idx' = handler_idx + 1
    /\ invocations' = Append(invocations, [event_no |-> Len(popped), handler |-> h])
    /\ last_call' = [op |-> h, event |-> cur_event]

InitEngine ==
    /\ event_queue = <<>>
    /\ handlers = [t \in EventTypes |-> <<>>]
    /\ cur_event = NoEvent
    /\ handler_idx = 1
    /\ inflight = <<>>

InitPortfolio ==
    /\ current_capital \in InitialCapitals
    /\ positions = EmptyDict
    /\ holdings = EmptyDict
    /\ equity_curve = <<>>
    /\ trades = <<>>
    /\ current_prices = EmptyDict

InitExecution ==
    /\ exec_prices = EmptyDict
    /\ slippage_pct \in SlippageRates
    /\ commission_pct \in CommissionRates

InitStrategy ==
    /\ lookback \in Lookbacks
    /\ num_std \in NumStds
    /\ position = 0

InitObs ==
    /\ enq_log = <<>>
    /\ popped = <<>>
    /\ invocations = <<>>
    /\ last_call = NoCall
    /\ calls = 0
    /\ error = "none"
    /\ resolved = <<>>
    /\ first_run = NoRun

\* load_data: one series per symbol (the tracked symbol's closes vary)
LoadedData(syms) ==
    {d \in [{syms[i] : i \in 1..Len(syms)} -> SeqsUpTo(Closes, MaxBars)] :
        \A s \in DOMAIN d : s # StrategySymbol =>
            \A i \in 1..Len(d[s]) : d[s][i] \in OtherCloses}

Init ==
    /\ InitEngine
    /\ pc = "setup"
    /\ bar_count = 0
    /\ symbols \in SymbolLists
    /\ data \in LoadedData(symbols)
    /\ current_index = 0
    /\ InitPortfolio
    /\ InitExecution
    /\ InitStrategy
    /\ InitObs

RegisterHandlers ==
    /\ pc = "setup"
    /\ register_handler(Registrations[Registered + 1][1],
                        Registrations[Registered + 1][2])
    /\ pc' = IF Registered + 1 = Len(Registrations) THEN "stream" ELSE "setup"
    /\ last_call' = [op |-> "register_handler"]
    /\ UNCHANGED <<event_queue, cur_event, handler_idx, inflight, bar_count,
                   dataVars, pfVars, execVars, stratVars,
                   enq_log, popped, invocations, calls, error, resolved, first_run>>

\* `while await data_handler.stream_next_bar():` with a bar left
StreamNextBar ==
    /\ pc = "stream"
    /\ Running
    /\ HasNextBar
    /\ put_events(BarEvents)
    /\ current_index' = current_index + 1
    /\ pc' = "drain"
    /\ last_call' = [op |-> "stream_next_bar"]
    /\ UNCHANGED <<handlers, cur_event, handler_idx, inflight, bar_count,
                   symbols, data, pfVars, execVars, stratVars,
                   popped, invocations, calls, error, resolved, first_run>>

\* stream_next_bar returns False: the driver loop ends
EndOfData ==
    /\ pc = "stream"
    /\ Running
    /\ ~HasNextBar
    /\ pc' = "done"
    /\ last_call' = [op |-> "end_of_data"]
    /\ UNCHANGED <<engineVars, bar_count, dataVars, pfVars, execVars, stratVars,
                   enq_log, popped, invocations, calls, error, resolved, first_run>>

\* process_events: event = self.event_queue.popleft()
PopEvent ==
    /\ pc = "drain"
    /\ Running
    /\ AwaitDone
    /\ HandlersDone
    /\ ~DrainFinished
    /\ cur_event' = popleft.event
    /\ event_queue' = popleft.rest
    /\ handler_idx' = 1
    /\ popped' = Append(popped, popleft.event)
    /\ last_call' = [op |-> "popleft"]
    /\ UNCHANGED <<handlers, inflight, driverVars, dataVars, pfVars, execVars,
                   stratVars, enq_log, invocations, calls, error, resolved, first_run>>

\* process_events returns to the driver loop: bar_count += 1
ReturnFromDrain ==
    /\ pc = "drain"
    /\ Running
    /\ AwaitDone
    /\ HandlersDone
    /\ DrainFinished
    /\ cur_event' = NoEvent
    /\ pc' = "stream"
    /\ bar_count' = bar_count + 1
    /\ last_call' = [op |-> "process_events_return"]
    /\ UNCHANGED <<event_queue, handlers, handler_idx, inflight, dataVars, pfVars,
                   execVars, stratVars, enq_log, popped, invocations, calls, error, resolved, first_run>>

handle_market_event(event) ==
    /\ update_market_price(event.symbol, event.close, event.timestamp)
    /\ exec_update_market_price(event.symbol, event.close)
    /\ calculate_signals(event)

InvokeMarketHandler ==
    /\ Dispatching("handle_market_event")
    /\ CallHandler("handle_market_event")
    /\ handle_market_event(cur_event)
    /\ UNCHANGED <<handlers, cur_event, inflight, driverVars, dataVars,
                   popped, calls, error, resolved, first_run>>

InvokeSignalHandler ==
    /\ Dispatching("handle_signal_event")
    /\ CallHandler("handle_signal_event")
    /\ process_signal(cur_event)
    /\ UNCHANGED <<handlers, cur_event, inflight, driverVars, dataVars,
                   execVars, stratVars, popped, calls, error, resolved, first_run>>

\* handle_order_event up to `await asyncio.sleep(latency)` of execute_order
InvokeOrderHandler ==
    /\ Dispatching("handle_order_event")
    /\ CallHandler("handle_order_event")
    /\ \E latency \in Latencies :
          inflight' = Append(inflight, [event |-> cur_event, latency |-> latency])
    /\ UNCHANGED <<event_queue, handlers, cur_event, driverVars, dataVars, pfVars,
                   execVars, stratVars, enq_log, popped, calls, error, resolved, first_run>>

\* execute_order from the end of its sleep to its return
ResumeOrderHandler ==
    /\ Running
    /\ inflight # <<>>
    /\ \E i \in 1..Len(inflight), u \in UniformDraws :
          LET out == ExecuteOutcome(inflight[i].event, inflight[i].latency, u)
          IN /\ put_events(out.fills)
             /\ error' = out.error
             /\ resolved' = Append(resolved,
                    [order |-> inflight[i].event, fills |-> out.fills,
                     latency |-> inflight[i].latency, u |-> u,
                     priced |-> inflight[i].event.symbol \in DOMAIN exec_prices])
             /\ inflight' = SubSeq(inflight, 1, i - 1)
                              \o SubSeq(inflight, i + 1, Len(inflight))
             /\ last_call' = [op |-> "execute_order", event |-> inflight[i].event]
    /\ UNCHANGED <<handlers, cur_event, handler_idx, driverVars, dataVars, pfVars,
                   execVars, stratVars, popped, invocations, calls, first_run>>

InvokeFillHandler ==
    /\ Dispatching("handle_fill_event")
    /\ CallHandler("handle_fill_event")
    /\ process_fill(cur_event)
    /\ UNCHANGED <<event_queue, handlers, cur_event, inflight, driverVars, dataVars,
                   execVars, stratVars, enq_log, popped, calls, error, resolved, first_run>>

Next ==
    \/ RegisterHandlers
    \/ StreamNextBar
    \/ EndOfData
    \/ PopEvent
    \/ ReturnFromDrain
    \/ InvokeMarketHandler
    \/ InvokeSignalHandler
    \/ InvokeOrderHandler
    \/ ResumeOrderHandler
    \/ InvokeFillHandler

Spec == Init /\ [][Next]_vars

\* run_backtest is the only task of the asyncio loop: it is resumed whenever
\* it can go on, and a sleep always ends
SpecLive == Spec /\ WF_vars(Next)

\* every division the execution handler performs is exact
ExactArith ==
    \A i \in 1..Len(trades) :
        /\ trades[i].commission * commission_pct[2]
             = trades[i].price * trades[i].quantity * commission_pct[1]
        /\ trades[i].price > 0

----------------------------------------------------------------------------
(* Properties of the driver loop of run_backtest (Spec) *)

\* the handlers invoked for the i-th popped event, in invocation order
RECURSIVE InvokedFrom(_, _)
InvokedFrom(i, j) ==
    IF j > Len(invocations) THEN <<>>
    ELSE IF invocations[j].event_no = i
         THEN <<invocations[j].handler>> \o InvokedFrom(i, j + 1)
         ELSE InvokedFrom(i, j + 1)

InvokedFor(i) == InvokedFrom(i, 1)

\* every event ever enqueued has been popped and given to all its handlers
AllHandled ==
    /\ popped = enq_log
    /\ \A i \in 1..Len(popped) :
          Len(InvokedFor(i)) = Len(handlers[popped[i].event_type])

\* C1: drain-before-advance. Whenever stream_next_bar enqueues the
\* MarketEvents of a bar, the queue is empty, no event is being dispatched, no
\* order handler is suspended, and every event enqueued before (the previous
\* bars' MarketEvents and the SignalEvents, OrderEvents and FillEvents they
\* spawned) has been handled by all its handlers.
C1_DrainBeforeAdvance ==
    [][current_index' # current_index =>
          /\ event_queue = <<>>
          /\ cur_event = NoEvent
          /\ inflight = <<>>
          /\ AllHandled]_vars

\* a bar is fed in after an earlier bar spawned a signal, an order and a fill,
\* with two tracked symbols
C1_Witness ==
    /\ last_call.op = "stream_next_bar"
    /\ Len(symbols) = 2
    /\ trades # <<>>
    /\ event_queue # <<>>

C7_OneEntryPerBar ==
    pc \in {"stream", "done"} => Len(equity_curve) = bar_count

----------------------------------------------------------------------------
(* The EventEngine alone (SpecEngine): a caller registers plain handlers,   *)
(* puts events and calls process_events; handler h1 may put an event.       *)

EngineTypes == {"MARKET", "SIGNAL"}
EngineHandlers == {"h1", "h2"}

\* an event of the caller's or a handler's making; seq and behind record when
\* it was put and how many events were queued before it
EngineEvent(event_type, src) ==
    [event_type |-> event_type, seq |-> Len(enq_log) + 1, src |-> src,
     behind |-> Len(event_queue)]

pfConstructed ==
    /\ positions = EmptyDict
    /\ holdings = EmptyDict
    /\ equity_curve = <<>>
    /\ trades = <<>>
    /\ current_prices = EmptyDict

NoFeed ==
    /\ bar_count = 0
    /\ symbols = <<>>
    /\ data = EmptyDict
    /\ current_index = 0

InitEngineOnly ==
    /\ InitEngine
    /\ pc = "caller"
    /\ NoFeed
    /\ current_capital = 0
    /\ pfConstructed
    /\ exec_prices = EmptyDict
    /\ slippage_pct = <<0, 1>>
    /\ commission_pct = <<0, 1>>
    /\ lookback = 1
    /\ num_std = 0
    /\ position = 0
    /\ InitObs

EngineRegister ==
    /\ pc = "caller"
    /\ SumSeq([i \in 1..4 |-> Len(handlers[Registrations[i][1]])]) < MaxHandlers
    /\ \E t \in EngineTypes, h \in EngineHandlers : register_handler(t, h)
    /\ last_call' = [op |-> "register_handler"]
    /\ UNCHANGED <<event_queue, cur_event, handler_idx, inflight, driverVars,
                   dataVars, pfVars, execVars, stratVars,
                   enq_log, popped, invocations, calls, error, resolved, first_run>>

EnginePut ==
    /\ pc = "caller"
    /\ Len(enq_log) < MaxEvents
    /\ \E t \in EngineTypes : put_events(<<EngineEvent(t, "caller")>>)
    /\ last_call' = [op |-> "put_event"]
    /\ UNCHANGED <<handlers, cur_event, handler_idx, inflight, driverVars,
                   dataVars, pfVars, execVars, stratVars,
                   popped, invocations, calls, error, resolved, first_run>>

\* the caller awaits process_events()
EngineDrain ==
    /\ pc = "caller"
    /\ event_queue # <<>>
    /\ pc' = "drain"
    /\ last_call' = [op |-> "process_events"]
    /\ UNCHANGED <<engineVars, bar_count, dataVars, pfVars, execVars, stratVars,
                   enq_log, popped, invocations, calls, error, resolved, first_run>>

EngineReturn ==
    /\ pc = "drain"
    /\ HandlersDone
    /\ DrainFinished
    /\ cur_event' = NoEvent
    /\ pc' = "caller"
    /\ last_call' = [op |-> "process_events_return"]
    /\ UNCHANGED <<event_queue, handlers, handler_idx, inflight, bar_count,
                   dataVars, pfVars, execVars, stratVars,
                   enq_log, popped, invocations, calls, error, resolved, first_run>>

\* what a plain handler may put when it runs: h1 nothing or one event of
\* either type, h2 nothing
HandlerPuts(h) ==
    IF h = "h1" THEN {<<>>} \cup {<<EngineEvent(t, h)>> : t \in EngineTypes}
    ELSE {<<>>}

EngineInvoke ==
    \E h \in EngineHandlers :
        /\ Dispatching(h)
        /\ CallHandler(h)
        /\ \E evs \in HandlerPuts(h) :
              /\ Len(enq_log) + Len(evs) <= MaxEvents
              /\ put_events(evs)
        /\ UNCHANGED <<handlers, cur_event, inflight, driverVars, dataVars,
                       pfVars, execVars, stratVars, popped, calls, error, resolved, first_run>>

NextEngine ==
    \/ EngineRegister
    \/ EnginePut
    \/ EngineDrain
    \/ PopEvent
    \/ EngineInvoke
    \/ EngineReturn

SpecEngine == InitEngineOnly /\ [][NextEngine]_vars

----------------------------------------------------------------------------
(* Properties of the EventEngine (SpecEngine) *)

\* C2: FIFO dispatch. The events popped so far, followed by the events still
\* queued, are exactly the events given to put_event, in the order of the
\* put_event calls: every event is popped once, in enqueue order, events put
\* by handlers during the drain included; and process_events returns only
\* when all of them have been popped.
C2_Fifo ==
    /\ enq_log = popped \o event_queue
    /\ (last_call.op = "process_events_return" => popped = enq_log)

\* an event put by a handler during the drain, behind an event that was
\* already queued, has been popped
C2_Witness ==
    \E i \in 1..Len(popped) : popped[i].src \in EngineHandlers /\ popped[i].behind > 0

\* process_events leaves the event it was dispatching (it pops the next one
\* or returns)
LeavesEvent ==
    /\ cur_event # NoEvent
    /\ popped' # popped \/ cur_event' = NoEvent

\* C3: for every dispatched event the handlers invoked are those registered
\* for the event's kind, once each, in registration order: while the event is
\* being dispatched the handlers invoked for it are the first handler_idx - 1
\* registered ones, and when process_events leaves the event they are all of
\* them.
C3_RegistrationOrder ==
    /\ [](cur_event # NoEvent =>
            InvokedFor(Len(popped))
              = SubSeq(handlers[cur_event.event_type], 1, handler_idx - 1))
    /\ [][LeavesEvent =>
            InvokedFor(Len(popped)) = handlers[cur_event.event_type]]_vars

\* an event of a kind with two different handlers registered has been given
\* to both, while the other kind has a handler of its own registered
C3_Witness ==
    /\ cur_event # NoEvent
    /\ Len(handlers[cur_event.event_type]) = 2
    /\ handlers[cur_event.event_type][1] # handlers[cur_event.event_type][2]
    /\ handler_idx = 3
    /\ \E t \in EngineTypes : t # cur_event.event_type /\ handlers[t] # <<>>

----------------------------------------------------------------------------
(* The Portfolio alone (SpecPortfolio): a caller makes any sequence of       *)
(* update_market_price, process_signal and process_fill calls.               *)

\* the quantity held of a symbol (none recorded: 0)
PositionOf(pos, symbol) == IF symbol \in DOMAIN pos THEN pos[symbol] ELSE 0

CallSignals ==
    {SignalEvent(calls, s, st, strength) :
        s \in CallSymbols, st \in {"LONG", "SHORT", "EXIT"},
        strength \in CallStrengths}

CallFills ==
    {FillEvent(calls, s, q, dir, fp, comm, 0) :
        s \in CallSymbols, q \in CallQuantities, dir \in {"BUY", "SELL"},
        fp \in Closes, comm \in CallCommissions}

InitPortfolioOnly ==
    /\ InitEngine
    /\ pc = "caller"
    /\ NoFeed
    /\ current_capital \in CallCapitals
    /\ pfConstructed
    /\ exec_prices = EmptyDict
    /\ slippage_pct = <<0, 1>>
    /\ commission_pct = <<0, 1>>
    /\ lookback = 1
    /\ num_std = 0
    /\ position = 0
    /\ InitObs

\* one more direct call by the caller
Called(call) ==
    /\ pc = "caller"
    /\ Running
    /\ calls < MaxCalls
    /\ calls' = calls + 1
    /\ last_call' = call

CallUpdateMarketPrice ==
    \E s \in CallSymbols, p \in Closes :
        /\ Called([op |-> "update_market_price", symbol |-> s, price |-> p])
        /\ update_market_price(s, p, calls)
        /\ UNCHANGED <<engineVars, driverVars, dataVars, execVars, stratVars,
                       enq_log, popped, invocations, error, resolved, first_run>>

CallProcessSignal ==
    \E sig \in CallSignals :
        /\ Called([op |-> "process_signal", event |-> sig])
        /\ process_signal(sig)
        /\ UNCHANGED <<handlers, cur_event, handler_idx, inflight, driverVars,
                       dataVars, execVars, stratVars, popped, invocations, error, resolved, first_run>>

CallProcessFill ==
    \E fill \in CallFills :
        /\ Called([op |-> "process_fill", event |-> fill,
                   before |-> [capital |-> current_capital,
                               position |-> PositionOf(positions, fill.symbol)]])
        /\ process_fill(fill)
        /\ UNCHANGED <<engineVars, driverVars, dataVars, execVars, stratVars,
                       enq_log, popped, invocations, error, resolved, first_run>>

NextPortfolio ==
    \/ CallUpdateMarketPrice
    \/ CallProcessSignal
    \/ CallProcessFill

SpecPortfolio == InitPortfolioOnly /\ [][NextPortfolio]_vars

----------------------------------------------------------------------------
(* The ExecutionHandler alone (SpecExecution): a caller makes any sequence  *)
(* of update_market_price and execute_order calls.                          *)

CallOrders ==
    {OrderEvent(calls, s, ot, q, dir) :
        s \in CallSymbols, ot \in {"MARKET", "LIMIT"}, q \in CallQuantities,
        dir \in {"BUY", "SELL"}}

InitExecutionOnly ==
    /\ InitEngine
    /\ pc = "caller"
    /\ NoFeed
    /\ current_capital \in CallCapitals
    /\ pfConstructed
    /\ InitExecution
    /\ lookback = 1
    /\ num_std = 0
    /\ position = 0
    /\ InitObs

CallExecUpdateMarketPrice ==
    \E s \in CallSymbols, p \in Closes :
        /\ Called([op |-> "exec_update_market_price", symbol |-> s, price |-> p])
        /\ calls < MaxExecCalls
        /\ AwaitDone
        /\ exec_update_market_price(s, p)
        /\ UNCHANGED <<engineVars, driverVars, dataVars, pfVars, stratVars,
                       enq_log, popped, invocations, error, resolved, first_run>>

\* `await execute_order(order)` up to its sleep
CallExecuteOrder ==
    \E order \in CallOrders, latency \in Latencies :
        /\ Called([op |-> "execute_order_called", event |-> order])
        /\ calls < MaxExecCalls
        /\ AwaitDone
        /\ inflight' = Append(inflight, [event |-> order, latency |-> latency])
        /\ UNCHANGED <<event_queue, handlers, cur_event, handler_idx, driverVars,
                       dataVars, pfVars, execVars, stratVars,
                       enq_log, popped, invocations, error, resolved, first_run>>

NextExecution ==
    \/ CallExecUpdateMarketPrice
    \/ CallExecuteOrder
    \/ ResumeOrderHandler

SpecExecution == InitExecutionOnly /\ [][NextExecution]_vars

----------------------------------------------------------------------------
(* Properties of the Portfolio (SpecPortfolio) *)

\* C5: equity identity. Every point appended to equity_curve carries
\* current_capital plus the sum of all holdings values as they stand when the
\* point is appended, and the points recorded before are kept.
C5_EquityIdentity ==
    [][Len(equity_curve') > Len(equity_curve) =>
          /\ Len(equity_curve') = Len(equity_curve) + 1
          /\ SubSeq(equity_curve', 1, Len(equity_curve)) = equity_curve
          /\ equity_curve'[Len(equity_curve')][2]
               = current_capital' + SumValues(holdings')]_vars

\* a point recorded by a price update that revalues a non-zero holding, after
\* a fill and an earlier price update
C5_Witness ==
    /\ last_call.op = "update_market_price"
    /\ Len(equity_curve) >= 2
    /\ trades # <<>>
    /\ \E s \in DOMAIN holdings :
          holdings[s] # 0 /\ holdings[s] = positions[s] * last_call.price

\* C6 as claimed: every symbol with a recorded position has a holdings value
\* equal to the position times the last price recorded for the symbol
C6_Claimed ==
    \A s \in DOMAIN positions :
        /\ s \in DOMAIN current_prices
        /\ s \in DOMAIN holdings
        /\ holdings[s] = positions[s] * current_prices[s]

\* C6 amended: every symbol with a recorded position and a recorded price has
\* holdings[s] = positions[s] * current_prices[s]; a symbol with a position
\* and no recorded price has no holdings entry.
C6_HoldingsConsistent ==
    \A s \in DOMAIN positions :
        IF s \in DOMAIN current_prices
        THEN s \in DOMAIN holdings /\ holdings[s] = positions[s] * current_prices[s]
        ELSE s \notin DOMAIN holdings

\* a priced symbol holds a non-zero position after a fill, next to a symbol
\* filled before the Portfolio saw a price for it
C6_Witness ==
    /\ \E s \in DOMAIN positions :
          s \in DOMAIN current_prices /\ positions[s] # 0 /\ holdings[s] # 0
    /\ \E t \in DOMAIN positions : t \notin DOMAIN current_prices
    /\ last_call.op = "process_fill"

\* the fill that undoes a BUY: the same symbol, quantity and price, as a SELL
Undoes(sell, buy) ==
    /\ buy.direction = "BUY"
    /\ sell.direction = "SELL"
    /\ sell.symbol = buy.symbol
    /\ sell.quantity = buy.quantity
    /\ sell.fill_price = buy.fill_price
    /\ buy.commission = 0 /\ sell.commission = 0
    /\ buy.slippage = 0 /\ sell.slippage = 0

\* C8: cash conservation under a round trip. process_fill of a BUY of q at p
\* directly followed by process_fill of a SELL of q at p, both with zero
\* commission and slippage, brings current_capital and the position of the
\* symbol (0 when none was recorded) back to their values before the BUY.
C8_RoundTrip ==
    [][(/\ last_call.op = "process_fill"
        /\ calls' = calls + 1
        /\ last_call'.op = "process_fill"
        /\ Undoes(last_call'.event, last_call.event)) =>
          /\ current_capital' = last_call.before.capital
          /\ PositionOf(positions', last_call.event.symbol)
               = last_call.before.position]_vars

\* a round trip has been completed (two consecutive calls) from a state
\* reached by an earlier call
C8_Witness ==
    /\ calls = 3
    /\ Len(trades) >= 2
    /\ last_call.op = "process_fill"
    /\ last_call.event.direction = "SELL"
    /\ last_call.event.commission = 0
    /\ LET buy == trades[Len(trades) - 1]
       IN /\ buy.direction = "BUY"
          /\ buy.commission = 0
          /\ buy.symbol = last_call.event.symbol
          /\ buy.quantity = last_call.event.quantity
          /\ buy.price = last_call.event.fill_price
          /\ buy.timestamp + 1 = last_call.event.timestamp

\* C9: zero-size no-op. A process_signal call whose computed position size is
\* 0 enqueues nothing and leaves current_capital, positions, holdings,
\* equity_curve, trades (and the recorded prices) unchanged.
C9_ZeroSizeNoOp ==
    [][(/\ calls' = calls + 1
        /\ last_call'.op = "process_signal"
        /\ PositionSize(current_capital, last_call'.event.strength,
                        SizingPrice(last_call'.event.symbol)) = 0) =>
          /\ event_queue' = event_queue
          /\ enq_log' = enq_log
          /\ UNCHANGED pfVars]_vars

\* a signal of non-zero strength was sized to 0 after a fill changed the cash
C9_Witness ==
    /\ last_call.op = "process_signal"
    /\ last_call.event.strength > 0
    /\ last_call.event.signal_type = "LONG"
    /\ PositionSize(current_capital, last_call.event.strength,
                    SizingPrice(last_call.event.symbol)) = 0
    /\ trades # <<>>

----------------------------------------------------------------------------
(* Properties of the ExecutionHandler (SpecExecution) *)

\* C10: dropped order. When execute_order resumes for an order whose symbol
\* has no price recorded in the ExecutionHandler, it enqueues no FillEvent,
\* raises no error, and the Portfolio's positions and cash are unchanged.
C10_DroppedOrder ==
    [][(/\ Len(inflight') < Len(inflight)
        /\ inflight[1].event.symbol \notin DOMAIN exec_prices) =>
          /\ event_queue' = event_queue
          /\ enq_log' = enq_log
          /\ error' = "none"
          /\ positions' = positions
          /\ current_capital' = current_capital]_vars

\* an order was executed for a symbol without a price while another symbol
\* has one
C10_Witness ==
    /\ last_call.op = "execute_order"
    /\ last_call.event.symbol \notin DOMAIN exec_prices
    /\ exec_prices # EmptyDict

----------------------------------------------------------------------------
(* Order resolution in the driver loop (SpecLive) *)

OfType(log, event_type) == SelectSeq(log, LAMBDA e : e.event_type = event_type)

\* the fills of the first n returned execute_order calls, in order
RECURSIVE FillsOf(_)
FillsOf(n) == IF n = 0 THEN <<>> ELSE FillsOf(n - 1) \o resolved[n].fills

\* the fill answers the order: one FillEvent of the same symbol, quantity and
\* direction
Answers(fills, order) ==
    /\ Len(fills) = 1
    /\ fills[1].event_type = "FILL"
    /\ fills[1].symbol = order.symbol
    /\ fills[1].quantity = order.quantity
    /\ fills[1].direction = order.direction

\* the returned execute_order calls are those of the first enqueued orders,
\* one each, and each produced one matching fill or, for a symbol without a
\* price, nothing; no other fill was ever enqueued
ResolvedOnce ==
    /\ Len(resolved) <= Len(OfType(enq_log, "ORDER"))
    /\ \A i \in 1..Len(resolved) :
          /\ resolved[i].order = OfType(enq_log, "ORDER")[i]
          /\ IF resolved[i].priced THEN Answers(resolved[i].fills, resolved[i].order)
             ELSE resolved[i].fills = <<>>
    /\ OfType(enq_log, "FILL") = FillsOf(Len(resolved))

\* an enqueued order for which execute_order has not returned yet
Pending == Len(resolved) < Len(OfType(enq_log, "ORDER"))

\* process_events has returned to the driver loop
Returned == pc \in {"stream", "done"}

\* C11: every OrderEvent enqueued is resolved exactly once within the drain
\* that enqueued it: execute_order returns once for it, with exactly one
\* FillEvent of the order's symbol, quantity and direction or, for a symbol
\* without a price, with nothing; no fill is enqueued otherwise; when
\* process_events returns no order is pending; and whenever an order is
\* pending, eventually none is.
C11_OrderResolved ==
    /\ [](ResolvedOnce /\ (Returned => ~Pending))
    /\ Pending ~> ~Pending

\* two orders, a BUY and the SELL that exits it, have each produced their
\* fill, and process_events has returned
C11_Witness ==
    /\ Returned
    /\ Len(resolved) = 2
    /\ resolved[1].order.direction = "BUY"
    /\ resolved[2].order.direction = "SELL"
    /\ Len(trades) = 2

----------------------------------------------------------------------------
(* Properties of process_signal and process_fill (SpecPortfolio) *)

\* the events the step gave to put_event, in order
Enqueued == SubSeq(enq_log', Len(enq_log) + 1, Len(enq_log'))

\* the step is a direct process_signal call for a signal of the given type
SignalCall(signal_type) ==
    /\ calls' = calls + 1
    /\ last_call'.op = "process_signal"
    /\ last_call'.event.signal_type = signal_type

\* C12 as claimed: process_signal on an EXIT signal for a symbol whose position
\* is positive enqueues exactly one SELL order for the whole position,
\* whatever the signal's strength and the cash-based size; with no long
\* position it enqueues nothing.
C12_ExitSellsAll ==
    [][SignalCall("EXIT") =>
          LET sig == last_call'.event
          IN IF PositionOf(positions, sig.symbol) > 0
             THEN Enqueued = <<OrderEvent(sig.timestamp, sig.symbol, "MARKET",
                                          positions[sig.symbol], "SELL")>>
             ELSE Enqueued = <<>>]_vars

\* C13 as claimed: every OrderEvent process_signal has enqueued has a
\* quantity strictly greater than 0, whatever the cash (negative after fills
\* included), the signal type and the strength.
C13_PositiveQuantity ==
    \A i \in 1..Len(enq_log) :
        enq_log[i].event_type = "ORDER" => enq_log[i].quantity > 0

\* floor(cash * 0.1 * strength / price), strength in 1/StrengthDen
FloorSize(cash, strength, price) == (cash * strength) \div (10 * StrengthDen * price)

\* C14 as claimed: for a LONG (resp. SHORT) signal process_signal enqueues one
\* BUY (resp. SELL) order of quantity floor(cash * 0.1 * strength / price),
\* the price being the last one recorded for the symbol or 100 when there is
\* none (nothing when that quantity is 0), for every cash value, negative
\* cash included.
C14_FloorSizing ==
    [][(SignalCall("LONG") \/ SignalCall("SHORT")) =>
          LET sig == last_call'.event
              q == FloorSize(current_capital, sig.strength, SizingPrice(sig.symbol))
              dir == IF sig.signal_type = "LONG" THEN "BUY" ELSE "SELL"
          IN IF q = 0 THEN Enqueued = <<>>
             ELSE Enqueued = <<OrderEvent(sig.timestamp, sig.symbol, "MARKET", q, dir)>>]_vars

\* the step is a direct process_fill call
FillCall ==
    /\ calls' = calls + 1
    /\ last_call'.op = "process_fill"

\* C15: fill accounting. process_fill of a BUY adds the quantity to the
\* symbol's position (0 when none was recorded) and takes fill_price *
\* quantity + commission from current_capital; of a SELL it takes the
\* quantity from the position, which may become negative, and adds fill_price
\* * quantity - commission to current_capital; the other positions are left
\* alone; the fill appends exactly one trade record, of its own fields, and
\* the earlier trade records and the equity-curve points stay as they were.
C15_FillAccounting ==
    [][FillCall =>
          LET fill == last_call'.event
              s == fill.symbol
              gross == fill.fill_price * fill.quantity
          IN /\ DOMAIN positions' = DOMAIN positions \cup {s}
             /\ \A t \in DOMAIN positions : t # s => positions'[t] = positions[t]
             /\ IF fill.direction = "BUY"
                THEN /\ positions'[s] = PositionOf(positions, s) + fill.quantity
                     /\ current_capital' = current_capital - (gross + fill.commission)
                ELSE /\ positions'[s] = PositionOf(positions, s) - fill.quantity
                     /\ current_capital' = current_capital + (gross - fill.commission)
             /\ Len(trades') = Len(trades) + 1
             /\ SubSeq(trades', 1, Len(trades)) = trades
             /\ trades'[Len(trades')] =
                  [timestamp |-> fill.timestamp, symbol |-> s,
                   direction |-> fill.direction, quantity |-> fill.quantity,
                   price |-> fill.fill_price, commission |-> fill.commission,
                   slippage |-> fill.slippage]
             /\ equity_curve' = equity_curve]_vars

\* a SELL with a commission has left a position below zero, after an
\* earlier fill and an equity point
C15_Witness ==
    /\ last_call.op = "process_fill"
    /\ last_call.event.direction = "SELL"
    /\ last_call.event.commission > 0
    /\ positions[last_call.event.symbol] < 0
    /\ Len(trades) >= 2
    /\ equity_curve # <<>>

----------------------------------------------------------------------------
(* run_backtest with any configuration (SpecConfig): the constructors are   *)
(* given window lengths and commission rates that include invalid ones.     *)

ConfigLookbacks == {0, 3}
ConfigCommissionRates == {<<-1, 1>>, <<0, 1>>}

\* MeanReversionStrategy.__init__ and ExecutionHandler.__init__ store what
\* they are given
InitConfig ==
    /\ InitEngine
    /\ pc = "setup"
    /\ bar_count = 0
    /\ symbols = <<StrategySymbol>>
    /\ data \in LoadedData(symbols)
    /\ current_index = 0
    /\ InitPortfolio
    /\ exec_prices = EmptyDict
    /\ slippage_pct = <<0, 1>>
    /\ commission_pct \in ConfigCommissionRates
    /\ lookback \in ConfigLookbacks
    /\ num_std \in NumStds
    /\ position = 0
    /\ InitObs

SpecConfig == InitConfig /\ [][Next]_vars

\* a non-positive window length or a negative commission rate
InvalidConfig == lookback <= 0 \/ commission_pct[1] < 0

\* C16 as claimed: a component given an invalid configuration fails at
\* construction, so with a non-positive window length or a negative
\* commission rate no run starts: no handler is registered, no bar is
\* streamed.
C16_FailFast ==
    InvalidConfig => Registered = 0 /\ current_index = 0 /\ enq_log = <<>>

----------------------------------------------------------------------------
(* run_backtest over the band scenario (SpecBand): the default window and   *)
(* multiplier, closes of 100 and a last close of 80.                        *)

DefaultLookback == 20

DefaultNumStd == 2

\* DefaultLookback bars: 100, ..., 100, 80
BandCloses == [i \in 1..DefaultLookback |-> IF i < DefaultLookback THEN 100 ELSE 80]

InitBand ==
    /\ InitEngine
    /\ pc = "setup"
    /\ bar_count = 0
    /\ symbols = <<StrategySymbol>>
    /\ data = [s \in {StrategySymbol} |-> BandCloses]
    /\ current_index = 0
    /\ InitPortfolio
    /\ InitExecution
    /\ lookback = DefaultLookback
    /\ num_std = DefaultNumStd
    /\ position = 0
    /\ InitObs

SpecBand == InitBand /\ [][Next]_vars

\* the number of MarketEvents the market handler has been called for
MarketHandled ==
    Cardinality({j \in 1..Len(invocations) :
                    invocations[j].handler = "handle_market_event"})

\* C17: band scenario. With window 20 and multiplier 2 over closes of 100 for
\* 19 bars and 80 for the 20th, the strategy has emitted no signal as long as
\* the market handler has seen fewer than 20 bars, and once it has handled
\* the 20th it has emitted exactly one signal: LONG, at the 20th bar's
\* timestamp, with strength 1.0.
C17_BandScenario ==
    OfType(enq_log, "SIGNAL") =
        IF MarketHandled < DefaultLookback THEN <<>>
        ELSE <<SignalEvent((DefaultLookback - 1) * BarMs, StrategySymbol, "LONG",
                           StrengthDen)>>

\* the run is over: the 20th bar's LONG signal was emitted, sized and filled
C17_Witness ==
    /\ pc = "done"
    /\ bar_count = DefaultLookback
    /\ Len(OfType(enq_log, "SIGNAL")) = 1
    /\ position = 1
    /\ Len(trades) = 1

----------------------------------------------------------------------------
(* PerformanceMetrics.max_drawdown (SpecMetrics): applied to equity series  *)
(* indexed by timestamp, as calculate_all_metrics is given them.            *)

MaxPoints == 5

EquityValues == {90, 95, 100, 120, 130}

None == "None"

\* the spec's example series
ExampleEquity == <<100, 120, 90, 95, 130>>

\* equity_df['equity']: the values of the curve, and the label of position i
Values(curve) == [i \in 1..Len(curve) |-> curve[i][2]]
Label(curve, i) == curve[i][1]

\* a running maximum taken over the whole series
running_max_Global(eq) ==
    [i \in 1..Len(eq) |-> MaxOf({eq[j] : j \in 1..Len(eq)})]

\* equity_curve.expanding().max()
running_max(eq) == [i \in 1..Len(eq) |-> MaxOf({eq[j] : j \in 1..i})]

\* drawdown = (equity_curve - running_max) / running_max, as <<num, den>>
drawdown(eq) ==
    [i \in 1..Len(eq) |-> <<eq[i] - running_max(eq)[i], running_max(eq)[i]>>]

\* a < b for fractions of positive denominator
FracLess(a, b) == a[1] * b[2] < b[1] * a[2]

\* Series.idxmin() / idxmax(): the first position of the least / greatest
idxmin(fr) ==
    CHOOSE i \in 1..Len(fr) :
        /\ \A j \in 1..Len(fr) : ~FracLess(fr[j], fr[i])
        /\ \A j \in 1..(i - 1) : FracLess(fr[i], fr[j])

idxmax(eq) ==
    CHOOSE i \in 1..Len(eq) :
        /\ \A j \in 1..Len(eq) : eq[j] <= eq[i]
        /\ \A j \in 1..(i - 1) : eq[j] < eq[i]

\* max_drawdown(equity_curve): (abs(max_dd), max_dd_start, max_dd_end); the
\* slice equity_curve[:max_dd_end] is by label and includes max_dd_end
max_drawdown(curve) ==
    IF Len(curve) < 2 THEN [max_dd |-> <<0, 1>>, start |-> None, end |-> None]
    ELSE LET eq == Values(curve)
             dd == drawdown(eq)
             max_dd_end == idxmin(dd)
             max_dd_start == idxmax(SubSeq(eq, 1, max_dd_end))
         IN [max_dd |-> <<Abs(dd[max_dd_end][1]), dd[max_dd_end][2]>>,
             start |-> Label(curve, max_dd_start),
             end |-> Label(curve, max_dd_end)]

\* the equity curves given to max_drawdown: one point per bar timestamp
MetricsCurves ==
    {[i \in 1..Len(s) |-> <<(i - 1) * BarMs, s[i]>>] :
        s \in SeqsUpTo(EquityValues, MaxPoints)}

InitMetrics ==
    /\ InitEngine
    /\ pc = "caller"
    /\ NoFeed
    /\ current_capital = 0
    /\ positions = EmptyDict
    /\ holdings = EmptyDict
    /\ equity_curve \in MetricsCurves
    /\ trades = <<>>
    /\ current_prices = EmptyDict
    /\ exec_prices = EmptyDict
    /\ slippage_pct = <<0, 1>>
    /\ commission_pct = <<0, 1>>
    /\ lookback = 1
    /\ num_std = 0
    /\ position = 0
    /\ InitObs

CallMaxDrawdown ==
    /\ pc = "caller"
    /\ calls = 0
    /\ calls' = 1
    /\ last_call' = [op |-> "max_drawdown", result |-> max_drawdown(equity_curve)]
    /\ UNCHANGED <<engineVars, driverVars, dataVars, pfVars, execVars, stratVars,
                   enq_log, popped, invocations, error, resolved, first_run>>

NextMetrics == CallMaxDrawdown

SpecMetrics == InitMetrics /\ [][NextMetrics]_vars

\* the decline at position i from the peak of the first i points, as a
\* fraction <<peak - value, peak>>
Decline(eq, i) ==
    LET peak == MaxOf({eq[j] : j \in 1..i}) IN <<peak - eq[i], peak>>

\* position i of the curve carries label l
At(curve, l, i) == i \in 1..Len(curve) /\ curve[i][1] = l

\* C18: drawdown correctness. For a series of two or more points
\* max_drawdown returns the largest decline of any point from the peak of
\* the points up to it; its end is the first point with that decline (the
\* trough) and its start the first point, at or before the end, that carries
\* the peak value the trough declined from. For [100, 120, 90, 95, 130] it
\* returns 25%, the start at the 120 and the end at the 90.
C18_Drawdown ==
    (last_call.op = "max_drawdown" /\ Len(equity_curve) >= 2) =>
        LET eq == Values(equity_curve)
            r == last_call.result
        IN /\ \A i \in 1..Len(eq) : ~FracLess(r.max_dd, Decline(eq, i))
           /\ \E e \in 1..Len(eq) :
                 /\ At(equity_curve, r.end, e)
                 /\ Decline(eq, e)[1] * r.max_dd[2] = r.max_dd[1] * Decline(eq, e)[2]
                 /\ \A j \in 1..(e - 1) : FracLess(Decline(eq, j), r.max_dd)
                 /\ \E s \in 1..e :
                       /\ At(equity_curve, r.start, s)
                       /\ eq[s] = Decline(eq, e)[2]
                       /\ \A j \in 1..(s - 1) : eq[j] < eq[s]
           /\ (eq = ExampleEquity =>
                 /\ r.max_dd[1] * 4 = r.max_dd[2]
                 /\ r.start = Label(equity_curve, 2)
                 /\ r.end = Label(equity_curve, 3))

\* max_drawdown has been applied to the spec's example series
C18_Witness ==
    /\ last_call.op = "max_drawdown"
    /\ Values(equity_curve) = ExampleEquity
    /\ last_call.result.max_dd = <<30, 120>>

----------------------------------------------------------------------------
(* run_backtest run twice on the same bars and configuration (SpecTwice):   *)
(* the second run starts from freshly constructed components.               *)

\* the random draws consumed so far: per executed order, the latency and the
\* slippage draw
Draws == [i \in 1..Len(resolved) |-> <<resolved[i].latency, resolved[i].u>>]

\* s is an initial part of t
IsPrefix(s, t) == Len(s) <= Len(t) /\ s = SubSeq(t, 1, Len(s))

InitTwice ==
    /\ InitEngine
    /\ pc = "setup"
    /\ bar_count = 0
    /\ symbols = <<StrategySymbol>>
    /\ data \in LoadedData(symbols)
    /\ current_index = 0
    /\ InitPortfolio
    /\ InitExecution
    /\ InitStrategy
    /\ enq_log = <<>>
    /\ popped = <<>>
    /\ invocations = <<>>
    /\ last_call = NoCall
    /\ calls = 0
    /\ error = "none"
    /\ resolved = <<>>
    /\ first_run = [run |-> 1, initial_capital |-> current_capital]

\* the first run is over: its results are kept and run_backtest is called
\* again, constructing every component anew with the same arguments
RunAgain ==
    /\ pc = "done"
    /\ first_run.run = 1
    /\ first_run' =
         [run |-> 2, initial_capital |-> first_run.initial_capital,
          draws |-> Draws, equity_curve |-> equity_curve, trades |-> trades,
          current_capital |-> current_capital, positions |-> positions,
          holdings |-> holdings, position |-> position]
    /\ event_queue' = <<>>
    /\ handlers' = [t \in EventTypes |-> <<>>]
    /\ cur_event' = NoEvent
    /\ handler_idx' = 1
    /\ inflight' = <<>>
    /\ pc' = "setup"
    /\ bar_count' = 0
    /\ current_index' = 0
    /\ current_capital' = first_run.initial_capital
    /\ positions' = EmptyDict
    /\ holdings' = EmptyDict
    /\ equity_curve' = <<>>
    /\ trades' = <<>>
    /\ current_prices' = EmptyDict
    /\ exec_prices' = EmptyDict
    /\ position' = 0
    /\ enq_log' = <<>>
    /\ popped' = <<>>
    /\ invocations' = <<>>
    /\ resolved' = <<>>
    /\ last_call' = [op |-> "run_backtest"]
    /\ UNCHANGED <<symbols, data, slippage_pct, commission_pct, lookback, num_std,
                   calls, error>>

NextTwice ==
    \/ Next
    \/ RunAgain

SpecTwice == InitTwice /\ [][NextTwice]_vars

----------------------------------------------------------------------------
(* run_backtest over closes and multipliers that bring every rule of the    *)
(* strategy into play (SpecStrategy).                                       *)

StrategyBars == 4

StrategyCloses == {20, 32, 40}
StrategyNumStds == {0, 1}

\* load_data: one series per symbol, all of the same length
StrategyData(syms) ==
    {d \in [{syms[i] : i \in 1..Len(syms)} -> SeqsUpTo(StrategyCloses, StrategyBars)] :
        \A s \in DOMAIN d : s # StrategySymbol =>
            /\ Len(d[s]) = Len(d[StrategySymbol])
            /\ \A i \in 1..Len(d[s]) : d[s][i] \in OtherCloses}

InitStrategyRun ==
    /\ InitEngine
    /\ pc = "setup"
    /\ bar_count = 0
    /\ symbols \in SymbolLists
    /\ data \in StrategyData(symbols)
    /\ current_index = 0
    /\ InitPortfolio
    /\ exec_prices = EmptyDict
    /\ slippage_pct = <<0, 1>>
    /\ commission_pct = <<0, 1>>
    /\ lookback \in Lookbacks
    /\ num_std \in StrategyNumStds
    /\ position = 0
    /\ InitObs

SpecStrategy == InitStrategyRun /\ [][Next]_vars

\* the step is the market handler called for the event being dispatched
MarketCall ==
    /\ invocations' # invocations
    /\ last_call'.op = "handle_market_event"

\* the strategy has a decision to take on the event: it is for its symbol
\* and a full window of closes is there
Ready(event) ==
    /\ event.symbol = StrategySymbol
    /\ Len(get_latest_bars(StrategySymbol, lookback)) = lookback

\* C20: strategy transition rules. On each MarketEvent calculate_signals
\* emits at most one SignalEvent: (1) flat and close < lower: LONG, the flag
\* becomes long; else (2) long and close > upper: EXIT, the flag becomes
\* flat; else (3) long and |close - mean| < 0.5 sigma: EXIT of strength 0.5,
\* the flag becomes flat; otherwise (another symbol's event and a window not
\* yet full included) nothing is emitted and the flag is unchanged. The flag
\* is always 0 or 1.
C20_Transitions ==
    /\ [](position \in {0, 1})
    /\ [][MarketCall =>
            LET e == cur_event
                w == get_latest_bars(StrategySymbol, lookback)
                emits(st) == /\ Len(Enqueued) = 1
                             /\ Enqueued[1].event_type = "SIGNAL"
                             /\ Enqueued[1].symbol = StrategySymbol
                             /\ Enqueued[1].signal_type = st
                             /\ Enqueued[1].strength \in 0..StrengthDen
            IN IF Ready(e) /\ position = 0 /\ BelowLower(e.close, w, num_std)
                 THEN emits("LONG") /\ position' = 1
               ELSE IF Ready(e) /\ position = 1 /\ AboveUpper(e.close, w, num_std)
                 THEN /\ emits("EXIT")
                      /\ position' = 0
                      /\ (num_std = 0 /\ NearMean(e.close, w) =>
                            2 * Enqueued[1].strength < StrengthDen)
               ELSE IF Ready(e) /\ position = 1 /\ NearMean(e.close, w)
                 THEN /\ emits("EXIT")
                      /\ 2 * Enqueued[1].strength = StrengthDen
                      /\ position' = 0
               ELSE Enqueued = <<>> /\ position' = position]_vars

\* the run emitted LONG on the first full window and EXIT on the next bar,
\* whose close was above the upper band and near the mean at once: rule (2)
\* was taken, not rule (3)
C20_Witness ==
    LET sig == OfType(enq_log, "SIGNAL")
        w == SubSeq(data[StrategySymbol], 2, lookback + 1)
    IN /\ Len(sig) = 2
       /\ Len(data[StrategySymbol]) > lookback
       /\ sig[1].signal_type = "LONG"
       /\ sig[2].signal_type = "EXIT"
       /\ sig[2].timestamp = lookback * BarMs
       /\ 2 * sig[2].strength < StrengthDen
       /\ AboveUpper(w[lookback], w, num_std)
       /\ NearMean(w[lookback], w)
       /\ position = 0

----------------------------------------------------------------------------
(* Properties of the strategy in the driver loop (SpecStrategy) *)

\* C21: insufficient history is a silent no-op. While fewer than lookback
\* bars, the current one included, have been fed, the market handler's call
\* of calculate_signals emits nothing, raises nothing and leaves the flag as
\* it is, so that no signal exists and the flag is flat before the
\* lookback-th bar.
C21_InsufficientHistory ==
    /\ [](current_index < lookback =>
            /\ OfType(enq_log, "SIGNAL") = <<>>
            /\ position = 0
            /\ error = "none")
    /\ [][(MarketCall /\ current_index < lookback) =>
            /\ Enqueued = <<>>
            /\ position' = position
            /\ error' = "none"]_vars

\* the lookback-th bar, the first with a full window, emitted a signal after
\* the bars before it were handled in silence
C21_Witness ==
    /\ OfType(enq_log, "SIGNAL") # <<>>
    /\ OfType(enq_log, "SIGNAL")[1].timestamp = (lookback - 1) * BarMs
    /\ lookback > 1
    /\ MarketHandled >= lookback

----------------------------------------------------------------------------
(* The strategy alone (SpecStrategyCalls): a caller advances the data feed  *)
(* and calls calculate_signals with MarketEvents of any symbol and close.   *)

InitStrategyCalls ==
    /\ InitEngine
    /\ pc = "caller"
    /\ bar_count = 0
    /\ symbols = <<StrategySymbol>>
    /\ data \in StrategyData(symbols)
    /\ current_index = 0
    /\ current_capital = 0
    /\ pfConstructed
    /\ exec_prices = EmptyDict
    /\ slippage_pct = <<0, 1>>
    /\ commission_pct = <<0, 1>>
    /\ lookback \in Lookbacks
    /\ num_std \in StrategyNumStds
    /\ position = 0
    /\ InitObs

\* the caller awaits stream_next_bar() and it returns True
CallStreamNextBar ==
    /\ pc = "caller"
    /\ HasNextBar
    /\ put_events(BarEvents)
    /\ current_index' = current_index + 1
    /\ last_call' = [op |-> "stream_next_bar"]
    /\ UNCHANGED <<handlers, cur_event, handler_idx, inflight, driverVars,
                   symbols, data, pfVars, execVars, stratVars,
                   popped, invocations, calls, error, resolved, first_run>>

CallCalculateSignals ==
    \E s \in CallSymbols, close \in StrategyCloses :
        LET event == MarketEvent(calls, s, close)
        IN /\ Called([op |-> "calculate_signals", event |-> event,
                      before |-> [position |-> position]])
           /\ calculate_signals(event)
           /\ UNCHANGED <<handlers, cur_event, handler_idx, inflight, driverVars,
                          dataVars, pfVars, execVars, popped, invocations,
                          error, resolved, first_run>>

NextStrategyCalls ==
    \/ CallStreamNextBar
    \/ CallCalculateSignals

SpecStrategyCalls == InitStrategyCalls /\ [][NextStrategyCalls]_vars

\* the step is a direct calculate_signals call
StrategyCall ==
    /\ calls' = calls + 1
    /\ last_call'.op = "calculate_signals"

\* the trailing window is full and its closes are all equal: sigma = 0
ZeroDeviation ==
    LET w == get_latest_bars(StrategySymbol, lookback)
    IN Len(w) = lookback /\ lookback > 1 /\ Spread(w) = 0

\* C22 as claimed: whenever the standard deviation of the trailing closes is
\* 0, calculate_signals emits no signal and leaves the flag unchanged, for
\* either flag value and any close carried by the MarketEvent.
C22_ZeroDeviationNoOp ==
    [][(StrategyCall /\ ZeroDeviation) =>
          Enqueued = <<>> /\ position' = position]_vars

----------------------------------------------------------------------------
(* Properties of the fills of execute_order (SpecExecution) *)

\* the step is execute_order returning with a FillEvent; Filled is its record
Fills ==
    /\ Len(resolved') = Len(resolved) + 1
    /\ resolved'[Len(resolved')].fills # <<>>

Filled == resolved'[Len(resolved')]

----------------------------------------------------------------------------
(* The ExecutionHandler with any non-negative rates (SpecExecutionRates)    *)

AnySlippageRates == {<<0, 1>>, <<1, 5>>, <<1, 1>>}

InitExecutionRates ==
    /\ InitEngine
    /\ pc = "caller"
    /\ NoFeed
    /\ current_capital \in CallCapitals
    /\ pfConstructed
    /\ exec_prices = EmptyDict
    /\ slippage_pct \in AnySlippageRates
    /\ commission_pct \in CommissionRates
    /\ lookback = 1
    /\ num_std = 0
    /\ position = 0
    /\ InitObs

SpecExecutionRates == InitExecutionRates /\ [][NextExecution]_vars

\* C24 as claimed: every FillEvent execute_order has produced carries
\* commission = fill_price * quantity * commission_rate, commission >= 0 and
\* slippage >= 0, for every non-negative slippage rate and commission rate
\* and every positive base price.
C24_NonNegative ==
    \A i \in 1..Len(resolved) :
        resolved[i].fills # <<>> =>
            LET fill == resolved[i].fills[1]
            IN /\ fill.commission * commission_pct[2]
                    = fill.fill_price * fill.quantity * commission_pct[1]
               /\ fill.commission >= 0
               /\ fill.slippage >= 0

----------------------------------------------------------------------------
(* Properties of the fill timestamp (SpecExecution) *)

\* the step is execute_order starting to sleep for an order
Sleeps == Len(inflight') = Len(inflight) + 1

\* C25: fill timestamp. Every FillEvent carries the timestamp of its order
\* plus the latency drawn for that order, the latency lies in the configured
\* [min_ms, max_ms] interval, so the fill is never stamped earlier than its
\* order; and a FillEvent is enqueued only by the step that ends the sleep
\* of its order's execute_order: the order was sleeping with that latency
\* before the step, and the step that starts the sleep enqueues nothing.
C25_FillTimestamp ==
    /\ [][Fills =>
            LET order == Filled.order
                fill == Filled.fills[1]
            IN /\ fill.timestamp = order.timestamp + Filled.latency
               /\ Filled.latency >= LatencyMs[1]
               /\ Filled.latency <= LatencyMs[2]
               /\ fill.timestamp >= order.timestamp
               /\ \E i \in 1..Len(inflight) :
                     /\ inflight[i].event = order
                     /\ inflight[i].latency = Filled.latency
               /\ Len(inflight') = Len(inflight) - 1
               /\ Enqueued = <<fill>>]_vars
    /\ [][OfType(Enqueued, "FILL") # <<>> => Fills]_vars
    /\ [][Sleeps => Enqueued = <<>>]_vars

\* a fill of an order that slept for the longest latency, enqueued with the
\* order's timestamp plus that latency
C25_Witness ==
    /\ Len(resolved) = 1
    /\ resolved[1].fills # <<>>
    /\ resolved[1].latency = LatencyMs[2]
    /\ resolved[1].fills[1].timestamp = resolved[1].order.timestamp + LatencyMs[2]
    /\ OfType(enq_log, "FILL") = resolved[1].fills
    /\ inflight = <<>>

----------------------------------------------------------------------------
(* Termination of process_events and of the driver loop (SpecLive) *)

\* the length of the shortest loaded series
ShortestSeries == MinOf({Len(data[s]) : s \in DOMAIN data})

\* the events the current process_events call has handled: those popped
\* from the first MarketEvent of the bar streamed last
ThisDrain ==
    LET starts == {i \in 1..Len(popped) :
                      /\ popped[i].event_type = "MARKET"
                      /\ popped[i].timestamp = (current_index - 1) * BarMs}
    IN IF starts = {} THEN <<>>
       ELSE SubSeq(popped, MinOf(starts), Len(popped))

Handled(event_type) == Len(OfType(ThisDrain, event_type))

\* the step is process_events returning to the driver loop
DrainReturns == pc = "drain" /\ pc' = "stream"

\* the step is stream_next_bar returning False
StreamEnds == pc = "stream" /\ pc' = "done"

\* C26: termination. Each process_events call returns, with an empty queue,
\* no handler left sleeping and every enqueued event handled, after handling
\* the MarketEvents of the bar and at most one SignalEvent, one OrderEvent
\* and one FillEvent per MarketEvent; a call starts with nothing left over
\* from earlier bars. The driver loop ends, after exactly as many bars as the
\* shortest loaded series has, with stream_next_bar returning False and
\* enqueuing nothing.
C26_Termination ==
    /\ [](pc = "drain" =>
            /\ Handled("MARKET") <= Len(symbols)
            /\ Handled("SIGNAL") <= Handled("MARKET")
            /\ Handled("ORDER") <= Handled("MARKET")
            /\ Handled("FILL") <= Handled("MARKET"))
    /\ [][DrainReturns =>
            /\ event_queue' = <<>>
            /\ inflight' = <<>>
            /\ popped' = enq_log'
            /\ Handled("MARKET") = Len(symbols)]_vars
    /\ [][(pc = "stream" /\ pc' = "drain") =>
            /\ popped = enq_log
            /\ Enqueued = event_queue'
            /\ OfType(Enqueued, "MARKET") = Enqueued
            /\ Len(Enqueued) = Len(symbols)]_vars
    /\ [][StreamEnds =>
            /\ Enqueued = <<>>
            /\ event_queue' = <<>>
            /\ current_index' = current_index
            /\ current_index = ShortestSeries]_vars
    /\ [](pc = "done" => bar_count = ShortestSeries /\ popped = enq_log)
    /\ (pc = "drain") ~> (pc = "stream")
    /\ <>(pc = "done")

\* the loop has ended after the three bars of the shorter of two series, the
\* longer one having four, and the last drain handled a signal, an order and
\* a fill after the bar's two MarketEvents
C26_Witness ==
    /\ pc = "done"
    /\ Len(symbols) = 2
    /\ Len(data["A"]) = 4
    /\ Len(data["B"]) = 3
    /\ bar_count = 3
    /\ Handled("MARKET") = 2
    /\ Handled("SIGNAL") = 1
    /\ Handled("ORDER") = 1
    /\ Handled("FILL") = 1

----------------------------------------------------------------------------
(* Positions in the pipeline of run_backtest (Spec) *)

\* the step is process_events giving cur_event to the named handler
HandlerCall(h) ==
    /\ invocations' # invocations
    /\ last_call'.op = h

\* C27: no short from EXIT in the pipeline. The reference strategy emits only
\* LONG and EXIT signals; a SELL order is enqueued only by process_signal
\* handling an EXIT, for the whole position then held, and a BUY order only
\* for a LONG; the position of every symbol is >= 0 in every reachable state,
\* and after process_fill has handled the fill of an EXIT-generated (SELL)
\* order the position of that symbol is exactly 0.
C27_NoShortFromExit ==
    /\ [](\A s \in DOMAIN positions : positions[s] >= 0)
    /\ [](\A i \in 1..Len(enq_log) :
             enq_log[i].event_type = "SIGNAL" =>
                 enq_log[i].signal_type \in {"LONG", "EXIT"})
    /\ [][\A i \in 1..Len(Enqueued) :
             Enqueued[i].event_type = "ORDER" =>
                 /\ HandlerCall("handle_signal_event")
                 /\ cur_event.symbol = Enqueued[i].symbol
                 /\ Enqueued[i].quantity > 0
                 /\ Enqueued[i].direction = "SELL" <=> cur_event.signal_type = "EXIT"
                 /\ Enqueued[i].direction = "BUY" <=> cur_event.signal_type = "LONG"
                 /\ Enqueued[i].direction = "SELL" =>
                        Enqueued[i].quantity = positions[cur_event.symbol]]_vars
    /\ [][(HandlerCall("handle_fill_event") /\ cur_event.direction = "SELL") =>
             /\ positions[cur_event.symbol] = cur_event.quantity
             /\ positions'[cur_event.symbol] = 0]_vars

\* a LONG was filled with a BUY, a later EXIT with a SELL of the same
\* quantity, and the position is back at 0
C27_Witness ==
    /\ Len(trades) = 2
    /\ trades[1].direction = "BUY"
    /\ trades[1].quantity > 0
    /\ trades[2].direction = "SELL"
    /\ trades[2].quantity = trades[1].quantity
    /\ trades[2].symbol = trades[1].symbol
    /\ positions[trades[2].symbol] = 0
    /\ Len(OfType(popped, "SIGNAL")) = 2

----------------------------------------------------------------------------
(* The pipeline with a short look-back and with no cash (SpecAlternation) *)

AlternationLookbacks == {2, 3}
AlternationCapitals == {0} \cup InitialCapitals

InitAlternation ==
    /\ InitEngine
    /\ pc = "setup"
    /\ bar_count = 0
    /\ symbols \in SymbolLists
    /\ data \in StrategyData(symbols)
    /\ current_index = 0
    /\ current_capital \in AlternationCapitals
    /\ pfConstructed
    /\ exec_prices = EmptyDict
    /\ slippage_pct = <<0, 1>>
    /\ commission_pct = <<0, 1>>
    /\ lookback \in AlternationLookbacks
    /\ num_std = 0
    /\ position = 0
    /\ InitObs

SpecAlternation == InitAlternation /\ [][Next]_vars

\* the SignalEvents emitted so far, in order
Signals == OfType(enq_log, "SIGNAL")

\* the step is a calculate_signals call, from the market handler or direct
StrategyStep == MarketCall \/ StrategyCall

\* C28: signal alternation. The signals one strategy instance has emitted
\* are LONG, EXIT, LONG, EXIT, ... starting with LONG, and the flag is 1
\* exactly after a LONG; the flag changes exactly in the steps that emit a
\* signal; such a step is a calculate_signals call for an event of the
\* tracked symbol and emits one signal, for that symbol; a call for an event
\* of another symbol emits nothing and leaves the flag; and no other step
\* (process_signal, execute_order, process_fill, the engine, the feed)
\* changes the flag, whether the orders were sized to zero or filled.
C28_SignalAlternation ==
    /\ [](/\ \A i \in 1..Len(Signals) :
                Signals[i].signal_type = IF i % 2 = 1 THEN "LONG" ELSE "EXIT"
          /\ position = Len(Signals) % 2)
    /\ [][position' # position <=> OfType(Enqueued, "SIGNAL") # <<>>]_vars
    /\ [][OfType(Enqueued, "SIGNAL") # <<>> =>
            /\ StrategyStep
            /\ last_call'.event.symbol = StrategySymbol
            /\ Len(Enqueued) = 1
            /\ Enqueued[1].symbol = StrategySymbol]_vars
    /\ [][(StrategyStep /\ last_call'.event.symbol # StrategySymbol) =>
            /\ Enqueued = <<>>
            /\ position' = position]_vars
    /\ [][~StrategyStep => position' = position]_vars

\* LONG, EXIT, LONG have been emitted, the flag is 1, events of the other
\* symbol were handled in between, and the first LONG and the EXIT were
\* filled, as the second LONG was
C28_Witness ==
    /\ Len(Signals) = 3
    /\ position = 1
    /\ Len(symbols) = 2
    /\ Len(trades) = 3
    /\ pc = "done"

\* LONG, EXIT, LONG have been emitted with no cash, every order sized to zero
C28_WitnessSizedToZero ==
    /\ Len(Signals) = 3
    /\ position = 1
    /\ current_capital = 0
    /\ OfType(enq_log, "ORDER") = <<>>
    /\ pc = "done"

----------------------------------------------------------------------------
(* The prices the pipeline of run_backtest reads (Spec) *)

\* the bar an event belongs to, by the timestamp stream_next_bar gave it
BarOf(event) == event.timestamp \div BarMs + 1

\* the close of the bar for the symbol in the loaded data
CloseOf(symbol, bar) == data[symbol][bar]

\* C29: no stale or look-ahead prices. When the market handler is given the
\* MarketEvent of bar i for a symbol, the cursor stands at i, the event
\* carries the close of bar i, and the look-back window the strategy reads,
\* when there is one, is the closes of bars i - lookback + 1 .. i, ending
\* with the event's close; process_signal, handling a signal spawned by that
\* event, sizes with the close of bar i of the signal's symbol; and
\* execute_order, filling an order spawned by it, takes the close of bar i
\* of the order's symbol as its base price.
C29_NoStaleOrLookAhead ==
    /\ [][MarketCall =>
            LET i == BarOf(cur_event)
                s == cur_event.symbol
                w == get_latest_bars(StrategySymbol, lookback)
            IN /\ i = current_index
               /\ cur_event.close = CloseOf(s, i)
               /\ current_prices'[s] = CloseOf(s, i)
               /\ exec_prices'[s] = CloseOf(s, i)
               /\ (s = StrategySymbol /\ i >= lookback) =>
                     /\ Len(w) = lookback
                     /\ w = SubSeq(data[s], i - lookback + 1, i)
                     /\ w[Len(w)] = cur_event.close
               /\ \A k \in 1..Len(Enqueued) :
                     Enqueued[k].timestamp = cur_event.timestamp]_vars
    /\ [][HandlerCall("handle_signal_event") =>
            LET i == BarOf(cur_event)
                s == cur_event.symbol
                size == PositionSize(current_capital, cur_event.strength,
                                     CloseOf(s, i))
            IN /\ i = current_index
               /\ SizingPrice(s) = CloseOf(s, i)
               /\ size = 0 => Enqueued = <<>>
               /\ \A k \in 1..Len(Enqueued) :
                     /\ Enqueued[k].timestamp = cur_event.timestamp
                     /\ Enqueued[k].symbol = s
                     /\ Enqueued[k].direction = "BUY" =>
                           Enqueued[k].quantity = size]_vars
    /\ [][Fills =>
            LET order == Filled.order
                i == BarOf(order)
                s == order.symbol
            IN /\ i = current_index
               /\ exec_prices[s] = CloseOf(s, i)
               /\ Filled.fills[1].fill_price
                    = FillPrice(CloseOf(s, i), order, Filled.u)]_vars

\* with two symbols streamed, a BUY sized and filled at the close of bar 3,
\* which differs from the closes of bar 2 and of bar 4
C29_Witness ==
    /\ Len(symbols) = 2
    /\ slippage_pct[1] = 0
    /\ Len(data[StrategySymbol]) >= 4
    /\ data[StrategySymbol][2] # data[StrategySymbol][3]
    /\ data[StrategySymbol][4] # data[StrategySymbol][3]
    /\ current_index = 3
    /\ Len(trades) = 1
    /\ trades[1].direction = "BUY"
    /\ trades[1].price = data[StrategySymbol][3]
    /\ \E c \in InitialCapitals, k \in 1..Len(popped) :
          /\ popped[k].event_type = "SIGNAL"
          /\ trades[1].quantity
               = PositionSize(c, popped[k].strength, data[StrategySymbol][3])

====
